---------------------------- MODULE Spec2Model ----------------------------
(***************************************************************************)
(* Model of CannabisDB's server (src/src/server.rs): a line-oriented TCP   *)
(* key-value store whose mutations are appended to a text log that is      *)
(* replayed at startup.                                                    *)
(*                                                                         *)
(* Text is modelled as it is in the program: a Rust String is a sequence   *)
(* of one-character strings, the log file is the sequence of characters    *)
(* written to it (records separated by "\n"), and parsing, formatting and  *)
(* line splitting are computed character by character.                     *)
(***************************************************************************)
EXTENDS Integers, Sequences, FiniteSets, TLC

(***************************************************************************)
(* Bounds of the model.                                                    *)
(***************************************************************************)
MaxLines == 2        \* lines read from all connections together in a run
MaxInitLines == 3    \* lines of the log file found at startup (SpecReplay)

\* The connections the listener accepts in a run.
Conns == {1, 2}

(***************************************************************************)
(* Characters and text helpers.                                            *)
(***************************************************************************)
SP == " "
CR == "\r"
LF == "\n"

\* str::to_ascii_uppercase on one character (the letters the model uses).
UpperChar(ch) ==
    CASE ch = "p" -> "P"
      [] ch = "u" -> "U"
      [] ch = "t" -> "T"
      [] ch = "g" -> "G"
      [] ch = "e" -> "E"
      [] ch = "d" -> "D"
      [] ch = "l" -> "L"
      [] ch = "q" -> "Q"
      [] ch = "i" -> "I"
      [] ch = "f" -> "F"
      [] ch = "o" -> "O"
      [] ch = "a" -> "A"
      [] ch = "b" -> "B"
      [] ch = "x" -> "X"
      [] OTHER -> ch

\* A mutation of to_ascii_uppercase that leaves the text as it is.
to_ascii_uppercase_asis(s) == s

to_ascii_uppercase(s) == [i \in 1..Len(s) |-> UpperChar(s[i])]

\* Index of the first occurrence of ch in s, 0 when there is none.
IndexOf(s, ch) ==
    IF \E i \in 1..Len(s) : s[i] = ch
    THEN CHOOSE i \in 1..Len(s) : s[i] = ch /\ \A j \in 1..(i-1) : s[j] # ch
    ELSE 0

\* str::splitn(n, " "): at most n parts, the last one is the unsplit rest.
RECURSIVE splitn(_, _)
splitn(n, s) ==
    LET i == IndexOf(s, SP) IN
    IF n <= 1 \/ i = 0
    THEN <<s>>
    ELSE <<SubSeq(s, 1, i-1)>> \o splitn(n-1, SubSeq(s, i+1, Len(s)))

\* The line terminator handling of BufRead::lines and tokio_io::io::lines:
\* a final "\n" is removed, and then one final "\r" if there is one.
StripEol(raw) ==
    LET a == IF Len(raw) > 0 /\ raw[Len(raw)] = LF
             THEN SubSeq(raw, 1, Len(raw)-1) ELSE raw
    IN  IF Len(raw) > 0 /\ raw[Len(raw)] = LF /\ Len(a) > 0 /\ a[Len(a)] = CR
        THEN SubSeq(a, 1, Len(a)-1) ELSE a

\* BufRead::lines over the bytes of a file: the file is cut after every "\n"
\* (a last piece without "\n" is a line too) and each piece goes through the
\* terminator handling above.
RECURSIVE ReadLines(_)
ReadLines(bytes) ==
    IF Len(bytes) = 0 THEN <<>>
    ELSE LET i == IndexOf(bytes, LF) IN
         IF i = 0 THEN <<StripEol(bytes)>>
         ELSE <<StripEol(SubSeq(bytes, 1, i))>>
              \o ReadLines(SubSeq(bytes, i+1, Len(bytes)))

(***************************************************************************)
(* Request::parse.  The result is a record: ok tells Ok(request) from      *)
(* Err(message); an Ok result carries the request's tag and fields.        *)
(***************************************************************************)
NoText == <<>>

ParseOk(tag, key, value, msg) ==
    [ok |-> TRUE, tag |-> tag, key |-> key, value |-> value, msg |-> msg,
     err |-> NoText]

ParseErr(text) ==
    [ok |-> FALSE, tag |-> "None", key |-> NoText, value |-> NoText,
     msg |-> NoText, err |-> text]

sGET  == <<"G","E","T">>
sPUT  == <<"P","U","T">>
sDEL  == <<"D","E","L">>
sPING == <<"P","I","N","G">>
sEXIT == <<"E","X","I","T">>
sQUIT == <<"Q","U","I","T">>

eGetKey    == <<"G","E","T"," ","m","u","s","t"," ","b","e"," ","f","o","l","l","o","w","e","d"," ","b","y"," ","a"," ","k","e","y">>
eGetExtra  == <<"G","E","T","'","s"," ","k","e","y"," ","m","u","s","t"," ","n","o","t"," ","b","e"," ","f","o","l","l","o","w","e","d"," ","b","y"," ","a","n","y","t","h","i","n","g">>
ePutKey    == <<"P","U","T"," ","m","u","s","t"," ","b","e"," ","f","o","l","l","o","w","e","d"," ","b","y"," ","a"," ","k","e","y">>
ePutValue  == <<"P","U","T"," ","n","e","e","d","s"," ","a"," ","v","a","l","u","e">>
eDelKey    == <<"D","E","L"," ","m","u","s","t"," ","b","e"," ","f","o","l","l","o","w","e","d"," ","b","y"," ","a"," ","k","e","y">>
eDelExtra  == <<"D","E","L","`","'","s"," ","k","e","y"," ","m","u","s","t"," ","n","o","t"," ","b","e"," ","f","o","l","l","o","w","e","d"," ","b","y"," ","a","n","y","t","h","i","n","g">>
eUnknown   == <<"u","n","k","n","o","w","n"," ","c","o","m","m","a","n","d",":"," ">>
eNoKey     == <<"n","o"," ","k","e","y"," ">>
ePersist   == <<"E","r","r","o","r"," ","w","r","i","t","i","n","g"," ","t","o"," ","p","e","r","s","i","s","t"," ","l","o","g">>
eExit      == <<"E","X","I","T"," ","C","O","M","M","A","N","D"," ","N","O","T"," ","I","M","P","L","E","M","E","N","T","E","D"," ","Y","E","T">>
sPong      == <<"P","O","N","G",":"," ">>
sError     == <<"e","r","r","o","r",":"," ">>
sEq        == <<" ","=","="," ">>

\* A mutation of parse that lets GET and DEL ignore what follows the key.
parse_lax(input) ==
    LET parts   == splitn(3, input)
        command == to_ascii_uppercase(parts[1])
        n       == Len(parts)
    IN  CASE command = sGET ->
               IF n < 2 THEN ParseErr(eGetKey)
               ELSE ParseOk("Get", parts[2], NoText, NoText)
          [] command = sPUT ->
               IF n < 2 THEN ParseErr(ePutKey)
               ELSE IF n < 3 THEN ParseErr(ePutValue)
               ELSE ParseOk("Put", parts[2], parts[3], NoText)
          [] command = sDEL ->
               IF n < 2 THEN ParseErr(eDelKey)
               ELSE ParseOk("Del", parts[2], NoText, NoText)
          [] command = sPING ->
               ParseOk("Ping", NoText, NoText, IF n >= 2 THEN parts[2] ELSE NoText)
          [] command \in {sEXIT, sQUIT} ->
               ParseOk("Exit", NoText, NoText, NoText)
          [] OTHER -> ParseErr(eUnknown \o command)

parse(input) ==
    LET parts   == splitn(3, input)
        command == to_ascii_uppercase(parts[1])
        n       == Len(parts)
    IN  CASE command = sGET ->
               IF n < 2 THEN ParseErr(eGetKey)
               ELSE IF n >= 3 THEN ParseErr(eGetExtra)
               ELSE ParseOk("Get", parts[2], NoText, NoText)
          [] command = sPUT ->
               IF n < 2 THEN ParseErr(ePutKey)
               ELSE IF n < 3 THEN ParseErr(ePutValue)
               ELSE ParseOk("Put", parts[2], parts[3], NoText)
          [] command = sDEL ->
               IF n < 2 THEN ParseErr(eDelKey)
               ELSE IF n >= 3 THEN ParseErr(eDelExtra)
               ELSE ParseOk("Del", parts[2], NoText, NoText)
          [] command = sPING ->
               ParseOk("Ping", NoText, NoText, IF n >= 2 THEN parts[2] ELSE NoText)
          [] command \in {sEXIT, sQUIT} ->
               ParseOk("Exit", NoText, NoText, NoText)
          [] OTHER -> ParseErr(eUnknown \o command)

(***************************************************************************)
(* Response and Response::serialize.                                       *)
(***************************************************************************)
RValue(key, value) == [tag |-> "Value",   key |-> key,    value |-> value,  msg |-> NoText]
RPut(key, value)   == [tag |-> "Put",     key |-> key,    value |-> value,  msg |-> NoText]
RDel(key)          == [tag |-> "Del",     key |-> key,    value |-> NoText, msg |-> NoText]
RError(msg)        == [tag |-> "Error",   key |-> NoText, value |-> NoText, msg |-> msg]
RMessage(msg)      == [tag |-> "Message", key |-> NoText, value |-> NoText, msg |-> msg]

serialize(r) ==
    CASE r.tag = "Value"   -> sGET \o <<SP>> \o r.key \o sEq \o r.value
      [] r.tag = "Del"     -> sDEL \o <<SP>> \o r.key
      [] r.tag = "Put"     -> sPUT \o <<SP>> \o r.key \o <<SP>> \o r.value
      [] r.tag = "Message" -> r.msg
      [] r.tag = "Error"   -> sError \o r.msg

(***************************************************************************)
(* Database::get / insert / remove on the HashMap, a function from the     *)
(* keys present to their values.                                           *)
(***************************************************************************)
EmptyMap == <<>>

\* A mutation of get that finds no key.
get_miss(m, key) == [some |-> FALSE, value |-> NoText]

\* Option<String> of HashMap::get: some tells Some(value) from None.
get(m, key) ==
    IF key \in DOMAIN m THEN [some |-> TRUE, value |-> m[key]]
    ELSE [some |-> FALSE, value |-> NoText]

\* A mutation of insert that keeps the value of a key already present.
insert_keep(m, key, value) ==
    [k \in (DOMAIN m) \cup {key} |-> IF k \in DOMAIN m THEN m[k] ELSE value]

\* A mutation of insert that adds the value to the one already present.
insert_concat(m, key, value) ==
    [k \in (DOMAIN m) \cup {key} |->
        IF k # key THEN m[k]
        ELSE IF key \in DOMAIN m THEN m[key] \o value ELSE value]

insert(m, key, value) ==
    [k \in (DOMAIN m) \cup {key} |-> IF k = key THEN value ELSE m[k]]

\* A mutation of remove that removes nothing.
remove_none(m, key) == m

remove(m, key) == [k \in (DOMAIN m) \ {key} |-> m[k]]


(***************************************************************************)
(* The persistence log file and append_line.                               *)
(*                                                                         *)
(* A file is [exists, bytes].  What the operating system does to one       *)
(* append is an input of the model:                                        *)
(*   "ok"         the record and its "\n" reach the file;                  *)
(*   "open_fail"  OpenOptions::open fails, and expect() panics;            *)
(*   "write_err"  writeln! returns Err: the record went straight to the    *)
(*                file (it does not fit BufWriter's buffer) and the write  *)
(*                failed;                                                  *)
(*   "flush_err"  writeln! returns Ok because the record only went into    *)
(*                BufWriter's buffer; the write happens when `writer` is   *)
(*                dropped at the end of append_line and fails there, and   *)
(*                BufWriter's drop discards that error.                    *)
(* A failed write is modelled as leaving no byte of the record behind.     *)
(***************************************************************************)
IOOutcomes == {"ok", "open_fail", "write_err", "flush_err"}

NoFile == [exists |-> FALSE, bytes |-> <<>>]

\* A mutation of append_line that writes the record at the start of the file.
append_line_at_start(file, line, io) ==
    CASE io = "open_fail" -> [panic |-> TRUE,  ret |-> FALSE, file |-> file]
      [] io = "ok"        -> [panic |-> FALSE, ret |-> TRUE,
                              file |-> [exists |-> TRUE,
                                        bytes |-> line \o <<LF>> \o file.bytes]]
      [] io = "write_err" -> [panic |-> FALSE, ret |-> FALSE,
                              file |-> [exists |-> TRUE, bytes |-> file.bytes]]
      [] io = "flush_err" -> [panic |-> FALSE, ret |-> TRUE,
                              file |-> [exists |-> TRUE, bytes |-> file.bytes]]

append_line(file, line, io) ==
    CASE io = "open_fail" -> [panic |-> TRUE,  ret |-> FALSE, file |-> file]
      [] io = "ok"        -> [panic |-> FALSE, ret |-> TRUE,
                              file |-> [exists |-> TRUE,
                                        bytes |-> file.bytes \o line \o <<LF>>]]
      [] io = "write_err" -> [panic |-> FALSE, ret |-> FALSE,
                              file |-> [exists |-> TRUE, bytes |-> file.bytes]]
      [] io = "flush_err" -> [panic |-> FALSE, ret |-> TRUE,
                              file |-> [exists |-> TRUE, bytes |-> file.bytes]]

(***************************************************************************)
(* Database::process_line.  The result is the response together with the   *)
(* effects of the call: the map and the file afterwards, whether the call  *)
(* panicked, and whether it called append_line.                            *)
(***************************************************************************)
\* A mutation of the `if write_log` test that appends during replay too.
ShouldAppendAlways(write_log) == TRUE

\* `if write_log` in the Del and Put arms.
ShouldAppend(write_log) == write_log

Result(response, m, file, panic, appended) ==
    [response |-> response, map |-> m, file |-> file, panic |-> panic,
     appended |-> appended]

\* The Del and Put arms: append first (live traffic only), mutate afterwards.
Mutate(m, file, write_log, io, record, newmap, response) ==
    IF ShouldAppend(write_log)
    THEN LET a == append_line(file, record, io) IN
         IF a.panic THEN Result(RError(NoText), m, a.file, TRUE, TRUE)
         ELSE IF ~a.ret THEN Result(RError(ePersist), m, a.file, FALSE, TRUE)
         ELSE Result(response, newmap, a.file, FALSE, TRUE)
    ELSE Result(response, newmap, file, FALSE, FALSE)

\* A mutation of process_line in which DEL of an absent key is an error.
process_line_del_present_only(m, file, line, write_log, io) ==
    LET request == parse(line) IN
    IF ~request.ok THEN Result(RError(request.err), m, file, FALSE, FALSE)
    ELSE CASE request.tag = "Get" ->
                LET v == get(m, request.key) IN
                IF v.some
                THEN Result(RValue(request.key, v.value), m, file, FALSE, FALSE)
                ELSE Result(RError(eNoKey \o request.key), m, file, FALSE, FALSE)
           [] request.tag = "Del" ->
                IF request.key \in DOMAIN m
                THEN Mutate(m, file, write_log, io,
                            sDEL \o <<SP>> \o request.key,
                            remove(m, request.key),
                            RDel(request.key))
                ELSE Result(RError(eNoKey \o request.key), m, file, FALSE, FALSE)
           [] request.tag = "Put" ->
                Mutate(m, file, write_log, io,
                       sPUT \o <<SP>> \o request.key \o <<SP>> \o request.value,
                       insert(m, request.key, request.value),
                       RPut(request.key, request.value))
           [] request.tag = "Ping" ->
                Result(RMessage(sPong \o request.msg), m, file, FALSE, FALSE)
           [] request.tag = "Exit" ->
                Result(RError(eExit), m, file, FALSE, FALSE)

process_line(m, file, line, write_log, io) ==
    LET request == parse(line) IN
    IF ~request.ok THEN Result(RError(request.err), m, file, FALSE, FALSE)
    ELSE CASE request.tag = "Get" ->
                LET v == get(m, request.key) IN
                IF v.some
                THEN Result(RValue(request.key, v.value), m, file, FALSE, FALSE)
                ELSE Result(RError(eNoKey \o request.key), m, file, FALSE, FALSE)
           [] request.tag = "Del" ->
                Mutate(m, file, write_log, io,
                       sDEL \o <<SP>> \o request.key,
                       remove(m, request.key),
                       RDel(request.key))
           [] request.tag = "Put" ->
                Mutate(m, file, write_log, io,
                       sPUT \o <<SP>> \o request.key \o <<SP>> \o request.value,
                       insert(m, request.key, request.value),
                       RPut(request.key, request.value))
           [] request.tag = "Ping" ->
                Result(RMessage(sPong \o request.msg), m, file, FALSE, FALSE)
           [] request.tag = "Exit" ->
                Result(RError(eExit), m, file, FALSE, FALSE)


(***************************************************************************)
(* State.                                                                  *)
(***************************************************************************)
VARIABLES
    phase,      \* "start", "replay", "serving", or "crashed" (main panicked)
    map,        \* Database.map
    file,       \* the file named by Database.persist_log
    replayPos,  \* lines of the log init_database has processed
    status,     \* per connection: "idle", "awaiting", "writing", "closed"
    pending,    \* per connection: the answer write_all is writing
    reads,      \* history: per connection, the lines read so far
    produced,   \* history: per connection, the answers process_line gave
    written,    \* history: per connection, the answers written to the socket
    file0,      \* history: the log file as it was found at startup
    accepted,   \* history: the Put/Del requests applied to the map, in order
    nlines      \* history: number of lines read from all connections

vars == <<phase, map, file, replayPos, status, pending, reads, produced,
          written, file0, accepted, nlines>>

(***************************************************************************)
(* Inputs: the lines clients send and the log files found at startup.      *)
(***************************************************************************)
lPutA1   == <<"P","U","T"," ","a"," ","1">>
lPutB2   == <<"P","U","T"," ","b"," ","2">>
lDelA    == <<"D","E","L"," ","a">>
lGetA    == <<"G","E","T"," ","a">>
lFoo     == <<"F","O","O"," ","b","a","r">>
lPutA    == <<"P","U","T"," ","a">>

\* What a client sends before the "\n" that ends the line.
WireLines ==
    { lPutA1,
      <<"p","u","t"," ","a"," ","1"," ","2",CR>>,    \* lower case, value "1 2", CR LF
      <<"P","U","T"," ","b"," ","1",CR,CR>>,         \* value "1\r", CR LF ending
      lGetA,
      <<"G","E","T"," ","a"," ","b">>,               \* trailing content
      lDelA,
      <<"D","E","L">>,                               \* missing key
      lPutA,                                         \* missing value
      <<"P","I","N","G"," ","1">>,
      <<"P","I","N","G"," ","2">>,
      lFoo,                                          \* unknown verb
      <<>>,                                          \* empty line
      <<"q","u","i","t">> }

\* The lines a log file found at startup is made of.
LogLines ==
    { lPutA1, lPutB2, lDelA,
      <<"P","U","T"," ","a"," ","2",CR>>,            \* a CR LF terminated record
      lGetA, lFoo, lPutA }

RECURSIVE Concat(_)
Concat(ls) ==
    IF Len(ls) = 0 THEN <<>> ELSE Head(ls) \o <<LF>> \o Concat(Tail(ls))

FileOf(ls) == [exists |-> TRUE, bytes |-> Concat(ls)]

ExampleLog == <<lPutA1, lPutB2, lDelA>>

\* The log files a serving run starts from.
ServeFiles == { NoFile, FileOf(ExampleLog) }

\* A log file that leaves the key a in the store.
StoredFiles == { FileOf(<<lPutA1>>) }

\* The log files a startup run starts from: absent, or up to MaxInitLines lines.
ReplayFiles ==
    {NoFile} \cup
    { FileOf(ls) : ls \in UNION { [1..n -> LogLines] : n \in 0..MaxInitLines } }

InitWith(files) ==
    /\ phase = "start"
    /\ map = EmptyMap
    /\ file \in files
    /\ file0 = file
    /\ replayPos = 0
    /\ status = [c \in Conns |-> "idle"]
    /\ pending = [c \in Conns |-> NoText]
    /\ reads = [c \in Conns |-> <<>>]
    /\ produced = [c \in Conns |-> <<>>]
    /\ written = [c \in Conns |-> <<>>]
    /\ accepted = <<>>
    /\ nlines = 0

Init == InitWith(ServeFiles)

InitReplay == InitWith(ReplayFiles)

InitStored == InitWith(StoredFiles)

(***************************************************************************)
(* Startup: init_database.                                                 *)
(***************************************************************************)
sessionVars == <<status, pending, reads, produced, written, nlines>>

\* The Put/Del request a response reports, as an entry of `accepted`.
Applied(acc, response) ==
    IF response.tag \in {"Put", "Del"}
    THEN Append(acc, [op |-> response.tag, key |-> response.key,
                      value |-> response.value])
    ELSE acc

\* A mutation of OpenLog that creates an absent log file and goes on.
OpenLogCreates ==
    /\ phase = "start"
    /\ phase' = "replay"
    /\ file' = [exists |-> TRUE, bytes |-> file.bytes]
    /\ UNCHANGED <<map, replayPos, file0, accepted, sessionVars>>

\* File::open(...).expect(...): an absent log file panics.
OpenLog ==
    /\ phase = "start"
    /\ phase' = IF file.exists THEN "replay" ELSE "crashed"
    /\ UNCHANGED <<map, file, replayPos, file0, accepted, sessionVars>>

\* A mutation of the replay loop that stops at a line that yields an error.
PhaseAfterReplayLineStrict(response) ==
    IF response.tag = "Error" THEN "crashed" ELSE "replay"

\* The replay loop only prints the response of a line and goes on.
PhaseAfterReplayLine(response) == "replay"

\* One iteration of `for line in reader.lines()`: process_line(line, false).
ReplayLine ==
    /\ phase = "replay"
    /\ replayPos < Len(ReadLines(file.bytes))
    /\ LET line == ReadLines(file.bytes)[replayPos + 1]
           r    == process_line(map, file, line, FALSE, "ok")
       IN  /\ phase' = IF r.panic THEN "crashed"
                       ELSE PhaseAfterReplayLine(r.response)
           /\ map' = r.map
           /\ file' = r.file
           /\ accepted' = Applied(accepted, r.response)
    /\ replayPos' = replayPos + 1
    /\ UNCHANGED <<file0, sessionVars>>

\* line.unwrap(): a line that cannot be read (I/O error, invalid UTF-8) panics.
ReplayReadErr ==
    /\ phase = "replay"
    /\ replayPos < Len(ReadLines(file.bytes))
    /\ phase' = "crashed"
    /\ UNCHANGED <<map, file, replayPos, file0, accepted, sessionVars>>

\* The loop ends, init_database returns and main runs the listener.
ReplayDone ==
    /\ phase = "replay"
    /\ replayPos >= Len(ReadLines(file.bytes))
    /\ phase' = "serving"
    /\ UNCHANGED <<map, file, replayPos, file0, accepted, sessionVars>>

(***************************************************************************)
(* Serving: one session per accepted connection, all on one event loop.    *)
(***************************************************************************)
\* listener.incoming().for_each: a connection is accepted and spawned.
Accept(c) ==
    /\ phase = "serving"
    /\ status[c] = "idle"
    /\ status' = [status EXCEPT ![c] = "awaiting"]
    /\ UNCHANGED <<phase, map, file, replayPos, pending, reads, produced,
                   written, file0, accepted, nlines>>

\* A mutation of the fold that takes the next line while a write is pending.
StatusAfterLineEager == "awaiting"

\* The fold polls the pending write_all before it takes the next line.
StatusAfterLine == "writing"

\* `lines` yields a line: the map closure runs process_line(line, true) and
\* the fold closure serializes the response and starts writing it, all in
\* one poll of the session's future.
ReadLine(c) ==
    /\ phase = "serving"
    /\ status[c] = "awaiting"
    /\ nlines < MaxLines
    /\ \E wire \in WireLines, io \in IOOutcomes :
         LET line == StripEol(wire \o <<LF>>)
             r    == process_line(map, file, line, TRUE, io)
         IN  /\ file' = r.file
             /\ nlines' = nlines + 1
             /\ reads' = [reads EXCEPT ![c] = Append(@, line)]
             /\ IF r.panic
                THEN /\ phase' = "crashed"
                     /\ UNCHANGED <<map, status, pending, produced, accepted>>
                ELSE /\ phase' = phase
                     /\ map' = r.map
                     /\ accepted' = Applied(accepted, r.response)
                     /\ pending' = [pending EXCEPT
                                      ![c] = serialize(r.response) \o <<LF>>]
                     /\ produced' = [produced EXCEPT
                                      ![c] = Append(@, serialize(r.response) \o <<LF>>)]
                     /\ status' = [status EXCEPT ![c] = StatusAfterLine]
    /\ UNCHANGED <<replayPos, written, file0>>

\* write_all completes: the fold goes back to waiting for a line.
WriteDone(c) ==
    /\ phase = "serving"
    /\ status[c] = "writing"
    /\ written' = [written EXCEPT ![c] = Append(@, pending[c])]
    /\ pending' = [pending EXCEPT ![c] = NoText]
    /\ status' = [status EXCEPT ![c] = "awaiting"]
    /\ UNCHANGED <<phase, map, file, replayPos, reads, produced, file0,
                   accepted, nlines>>

\* A mutation of WriteFail in which the error ends the event loop.
WriteFailStopsServer(c) ==
    /\ phase = "serving"
    /\ status[c] = "writing"
    /\ phase' = "crashed"
    /\ pending' = [pending EXCEPT ![c] = NoText]
    /\ status' = [status EXCEPT ![c] = "closed"]
    /\ UNCHANGED <<map, file, replayPos, reads, produced, written,
                   file0, accepted, nlines>>

\* A mutation of WriteFail that undoes the store update of the lost answer.
WriteFailUndo(c) ==
    /\ phase = "serving"
    /\ status[c] = "writing"
    /\ pending' = [pending EXCEPT ![c] = NoText]
    /\ status' = [status EXCEPT ![c] = "closed"]
    /\ map' = IF parse(reads[c][Len(reads[c])]).ok
                 /\ parse(reads[c][Len(reads[c])]).tag = "Put"
              THEN remove(map, parse(reads[c][Len(reads[c])]).key)
              ELSE map
    /\ UNCHANGED <<phase, file, replayPos, reads, produced, written,
                   file0, accepted, nlines>>

\* write_all fails: the fold ends with the error, which `then` discards.
WriteFail(c) ==
    /\ phase = "serving"
    /\ status[c] = "writing"
    /\ pending' = [pending EXCEPT ![c] = NoText]
    /\ status' = [status EXCEPT ![c] = "closed"]
    /\ UNCHANGED <<phase, map, file, replayPos, reads, produced, written,
                   file0, accepted, nlines>>

\* A mutation of ReadEnd in which the session ignores the end of its input.
ReadEndIgnored(c) ==
    /\ phase = "serving"
    /\ status[c] = "awaiting"
    /\ UNCHANGED vars

\* `lines` ends (end of input) or fails (read error): the session ends.
ReadEnd(c) ==
    /\ phase = "serving"
    /\ status[c] = "awaiting"
    /\ status' = [status EXCEPT ![c] = "closed"]
    /\ UNCHANGED <<phase, map, file, replayPos, pending, reads, produced,
                   written, file0, accepted, nlines>>

Startup == OpenLog \/ ReplayLine \/ ReplayReadErr \/ ReplayDone

Next ==
    \/ Startup
    \/ \E c \in Conns : Accept(c)
    \/ \E c \in Conns : ReadLine(c)
    \/ \E c \in Conns : WriteDone(c)
    \/ \E c \in Conns : WriteFail(c)
    \/ \E c \in Conns : ReadEnd(c)

Spec == Init /\ [][Next]_vars

\* The same program started on the log PUT a 1.
SpecStored == InitStored /\ [][Next]_vars

\* The program on connections that end: the event loop polls a session
\* whose write has completed or failed, and a session whose input has ended
\* or failed, so neither stays pending for ever.
SpecFair ==
    /\ Init
    /\ [][Next]_vars
    /\ \A c \in Conns : WF_vars(WriteDone(c) \/ WriteFail(c))
    /\ \A c \in Conns : WF_vars(ReadEnd(c))

\* Startup alone, from every log file of ReplayFiles.
SpecReplay == InitReplay /\ [][Startup]_vars


(***************************************************************************)
(* What a restart would compute: init_database's loop as a function of the *)
(* log's bytes, starting from an empty map.                                *)
(***************************************************************************)
RECURSIVE ReplayFold(_, _)
ReplayFold(m, lines) ==
    IF Len(lines) = 0 THEN m
    ELSE ReplayFold(process_line(m, NoFile, Head(lines), FALSE, "ok").map,
                    Tail(lines))

ReplayOf(bytes) == ReplayFold(EmptyMap, ReadLines(bytes))

(***************************************************************************)
(* Vocabulary of the properties.                                           *)
(***************************************************************************)
Last(s) == s[Len(s)]

\* This step reads a line on connection c; LineRead(c) is that line.
ReadOn(c) == Len(reads'[c]) = Len(reads[c]) + 1
LineRead(c) == Last(reads'[c])

IsMutation(line) == parse(line).ok /\ parse(line).tag \in {"Put", "Del"}

MutationOf(line) ==
    [op |-> parse(line).tag, key |-> parse(line).key, value |-> parse(line).value]

\* The map a sequence of Put/Del requests stands for: every key whose latest
\* request is a Put, with the value of that Put.
LastWinsOf(muts) ==
    LET idx(k)  == CHOOSE i \in 1..Len(muts) :
                      /\ muts[i].key = k
                      /\ \A j \in (i+1)..Len(muts) : muts[j].key # k
        present == { k \in { muts[i].key : i \in 1..Len(muts) } :
                       muts[idx(k)].op = "Put" }
    IN  [k \in present |-> muts[idx(k)].value]

\* The Put/Del records among the lines of a log, in file order.
RecordsOf(lines) ==
    LET ms == SelectSeq(lines, IsMutation)
    IN  [i \in 1..Len(ms) |-> MutationOf(ms[i])]

Answer(response) == serialize(response) \o <<LF>>

kA == <<"a">>
kB == <<"b">>
Only(k, v) == [x \in {k} |-> v]

(***************************************************************************)
(* C1: at every point of serving, replaying the current log into an empty  *)
(* store gives exactly the in-memory store.                                *)
(***************************************************************************)
C1_RestartRebuildsStore ==
    phase = "serving" => ReplayOf(file.bytes) = map

(***************************************************************************)
(* C2: when the append of a live PUT or DEL fails (its record does not     *)
(* reach the log), the store is unchanged and the answer is the failure    *)
(* "Error writing to persist log"; the store changes only in a step that   *)
(* appends the record.                                                     *)
(***************************************************************************)
RecordText(line) ==
    IF parse(line).tag = "Put"
    THEN sPUT \o <<SP>> \o parse(line).key \o <<SP>> \o parse(line).value
    ELSE sDEL \o <<SP>> \o parse(line).key

C2_FailedAppendLeavesStore ==
    [][\A c \in Conns :
         (ReadOn(c) /\ IsMutation(LineRead(c)))
         => /\ (file'.bytes = file.bytes)
                 => /\ map' = map
                    /\ (phase' = "serving"
                          => pending'[c] = Answer(RError(ePersist)))
            /\ (map' # map)
                 => file'.bytes = file.bytes \o RecordText(LineRead(c)) \o <<LF>>
      ]_vars

(***************************************************************************)
(* C3: after a live PUT or DEL whose append fails, the process is still    *)
(* serving and the connection that sent the line is still open.            *)
(***************************************************************************)
C3_FailedAppendIsRecovered ==
    [][\A c \in Conns :
         (ReadOn(c) /\ IsMutation(LineRead(c)) /\ file'.bytes = file.bytes)
         => /\ phase' = "serving"
            /\ status'[c] # "closed"
      ]_vars

(***************************************************************************)
(* C4: when replay ends, the store is the left-to-right fold of the log's  *)
(* PUT/DEL records, a later record of a key overriding an earlier one; the *)
(* log PUT a 1, PUT b 2, DEL a gives exactly {b: 2}.                       *)
(***************************************************************************)
C4_ReplayIsFold ==
    (phase = "serving" /\ nlines = 0)
    => /\ map = LastWinsOf(RecordsOf(ReadLines(file0.bytes)))
       /\ (file0 = FileOf(ExampleLog) => map = Only(kB, <<"2">>))

C4_Witness ==
    /\ phase = "serving" /\ nlines = 0
    /\ file0 = FileOf(ExampleLog)
    /\ map = Only(kB, <<"2">>)

(***************************************************************************)
(* C5: startup never writes the log: until the first live line is read the *)
(* log file is the one found at startup.                                   *)
(***************************************************************************)
C5_ReplayLeavesLog ==
    nlines = 0 => file = file0

C5_Witness ==
    /\ phase = "serving" /\ nlines = 0
    /\ Len(accepted) >= 2
    /\ file = file0

(***************************************************************************)
(* C6, as claimed: a log with a line that fails to parse never leads to    *)
(* the serving state.                                                      *)
(***************************************************************************)
HasBadLine(bytes) ==
    \E i \in 1..Len(ReadLines(bytes)) : ~parse(ReadLines(bytes)[i]).ok

lPing1 == <<"P","I","N","G"," ","1">>
lPing2 == <<"P","I","N","G"," ","2">>
aPong1 == <<"P","O","N","G",":"," ","1",LF>>
aPong2 == <<"P","O","N","G",":"," ","2",LF>>

IsPrefix(s, t) == Len(s) <= Len(t) /\ s = SubSeq(t, 1, Len(s))

C7_AnswersInOrder ==
    \A c \in Conns :
      /\ IsPrefix(written[c], produced[c])
      /\ Len(produced[c]) - Len(written[c]) <= 1
      /\ Len(produced[c]) <= Len(reads[c])
      /\ phase = "serving" => Len(produced[c]) = Len(reads[c])
      /\ status[c] = "awaiting" => written[c] = produced[c]
      /\ \A i \in 1..Len(written[c]) :
           /\ reads[c][i] = lPing1 => written[c][i] = aPong1
           /\ reads[c][i] = lPing2 => written[c][i] = aPong2

C7_Witness ==
    \E c \in Conns :
      /\ reads[c] = <<lPing1, lPing2>>
      /\ written[c] = <<aPong1, aPong2>>

(***************************************************************************)
(* C8: the store is the result of the Put/Del requests accepted so far     *)
(* (replayed and live, from all connections) in the order of acceptance:   *)
(* each key holds the value of its latest accepted PUT unless a DEL of it  *)
(* was accepted later, and a GET is answered from exactly that.            *)
(***************************************************************************)
C8_StoreIsAcceptedHistory ==
    /\ [](map = LastWinsOf(accepted))
    /\ [][\A c \in Conns :
            (ReadOn(c) /\ parse(LineRead(c)).ok /\ parse(LineRead(c)).tag = "Get")
            => LET k == parse(LineRead(c)).key
                   h == LastWinsOf(accepted)
               IN  pending'[c] = IF k \in DOMAIN h
                                 THEN Answer(RValue(k, h[k]))
                                 ELSE Answer(RError(eNoKey \o k))
         ]_vars

\* Both connections have had a mutation accepted, after the replayed ones.
C8_Witness ==
    /\ Len(accepted) = 5
    /\ \A c \in Conns : Len(reads[c]) = 1 /\ IsMutation(reads[c][1])
    /\ map = (kA :> <<"1">> @@ kB :> <<"1", CR>>)

(***************************************************************************)
(* C9: a line that fails to parse is answered by a failure, changes        *)
(* neither the store nor the log and leaves the connection open; unknown   *)
(* verbs, the empty line, GET and DEL with trailing content or without a   *)
(* key and PUT without a value fail to parse, and FOO bar is answered by   *)
(* "error: unknown command: FOO".                                          *)
(***************************************************************************)
aFoo == <<"e","r","r","o","r",":"," ","u","n","k","n","o","w","n"," ",
          "c","o","m","m","a","n","d",":"," ","F","O","O",LF>>

Malformed ==
    { lFoo, <<>>, lPutA, <<"P","U","T">>, <<"G","E","T">>, <<"D","E","L">>,
      <<"G","E","T"," ","a"," ","b">>, <<"D","E","L"," ","a"," ","b">>,
      <<"d","e","l"," ","a"," ">> }

C9_ParseFailureHasNoEffect ==
    /\ [](\A l \in Malformed : ~parse(l).ok)
    /\ [][\A c \in Conns :
            (ReadOn(c) /\ ~parse(LineRead(c)).ok)
            => /\ map' = map
               /\ file' = file
               /\ phase' = phase
               /\ accepted' = accepted
               /\ status'[c] = "writing"
               /\ pending'[c] = sError \o parse(LineRead(c)).err \o <<LF>>
               /\ (LineRead(c) = lFoo => pending'[c] = aFoo)
         ]_vars

C9_Witness ==
    \E c \in Conns :
      /\ reads[c] = <<lFoo, lGetA>>
      /\ written[c] = <<aFoo>>
      /\ map = Only(kB, <<"2">>)
      /\ file = file0

(***************************************************************************)
(* C10: GET k is answered by the value the store holds for k, or by the    *)
(* failure "no key k" when the store holds none, and changes neither the   *)
(* store nor the log.                                                      *)
(***************************************************************************)
aGetA1   == <<"G","E","T"," ","a"," ","=","="," ","1",LF>>
aNoKeyA  == <<"e","r","r","o","r",":"," ","n","o"," ","k","e","y"," ","a",LF>>

C10_GetIsReadOnly ==
    [][\A c \in Conns :
         (ReadOn(c) /\ parse(LineRead(c)).ok /\ parse(LineRead(c)).tag = "Get")
         => LET k == parse(LineRead(c)).key IN
            /\ map' = map
            /\ file' = file
            /\ accepted' = accepted
            /\ k \in DOMAIN map
                 => pending'[c] = sGET \o <<SP>> \o k \o sEq \o map[k] \o <<LF>>
            /\ k \notin DOMAIN map
                 => pending'[c] = sError \o eNoKey \o k \o <<LF>>
            /\ (k = kA /\ kA \in DOMAIN map /\ map[kA] = <<"1">>)
                 => pending'[c] = aGetA1
            /\ (k = kA /\ kA \notin DOMAIN map) => pending'[c] = aNoKeyA
      ]_vars

\* A connection put a value for a and then read it back.
C10_Witness ==
    \E c \in Conns :
      /\ reads[c] = <<lPutA1, lGetA>>
      /\ produced[c] = <<Answer(RPut(kA, <<"1">>)), aGetA1>>
      /\ map = (kA :> <<"1">> @@ kB :> <<"2">>)


(***************************************************************************)
(* C11, as claimed: GET k read on a connection right after DEL k on the    *)
(* same connection is always answered by the failure "no key k".           *)
(***************************************************************************)
\* This step reads GET k on c, and the line before it on c was DEL k.
GetAfterDel(c) ==
    /\ ReadOn(c)
    /\ Len(reads[c]) >= 1
    /\ parse(Last(reads[c])).ok /\ parse(Last(reads[c])).tag = "Del"
    /\ parse(LineRead(c)).ok /\ parse(LineRead(c)).tag = "Get"
    /\ parse(LineRead(c)).key = parse(Last(reads[c])).key

LatestIsDel(k) ==
    \E i \in 1..Len(accepted) :
       /\ accepted[i].key = k /\ accepted[i].op = "Del"
       /\ \A j \in (i+1)..Len(accepted) : accepted[j].key # k

lPutA12 == <<"p","u","t"," ","a"," ","1"," ","2">>

PutRequests ==
    { parse(StripEol(w \o <<LF>>)) : w \in { x \in WireLines :
        parse(StripEol(x \o <<LF>>)).ok /\ parse(StripEol(x \o <<LF>>)).tag = "Put" } }

C12_PutIsIdempotent ==
    /\ [](\A q \in PutRequests :
            LET once == insert(map, q.key, q.value) IN
            /\ insert(once, q.key, q.value) = once
            /\ get(once, q.key) = [some |-> TRUE, value |-> q.value]
            /\ DOMAIN once = (DOMAIN map) \cup {q.key}
            /\ \A x \in (DOMAIN map) \ {q.key} : once[x] = map[x])
    /\ [][\A c \in Conns :
            (/\ ReadOn(c)
             /\ parse(LineRead(c)).ok /\ parse(LineRead(c)).tag = "Put"
             /\ phase' = "serving"
             /\ pending'[c] = Answer(RPut(parse(LineRead(c)).key,
                                          parse(LineRead(c)).value))
             /\ Len(accepted) >= 1
             /\ Last(accepted) = MutationOf(LineRead(c)))
            => /\ map' = map
               /\ map'[parse(LineRead(c)).key] = parse(LineRead(c)).value
         ]_vars

\* The same PUT twice in a row on a connection, over an older value of a.
C12_Witness ==
    \E c \in Conns :
      /\ file0 = FileOf(<<lPutA1>>)
      /\ reads[c] = <<lPutA12, lPutA12>>
      /\ Len(accepted) = 3
      /\ map = Only(kA, <<"1"," ","2">>)


(***************************************************************************)
(* C13: EXIT and QUIT, in any letter case and whatever follows them, are   *)
(* answered by the failure "EXIT COMMAND NOT IMPLEMENTED YET"; the step    *)
(* changes neither the store nor the log and leaves the session open,      *)
(* writing the answer, after which it takes its next line.                 *)
(***************************************************************************)
lQuit == <<"q","u","i","t">>
aExit == sError \o eExit \o <<LF>>

ExitSpellings ==
    { sEXIT, sQUIT, lQuit, <<"e","x","i","t">>, <<"E","x","i","T">>,
      <<"Q","u","i","t">>, <<"q","u","i","t"," ","a"," ","b">>,
      <<"E","X","I","T"," ">> }

C13_ExitKeepsSessionOpen ==
    /\ [](\A l \in ExitSpellings :
            /\ parse(l) = ParseOk("Exit", NoText, NoText, NoText)
            /\ Answer(process_line(map, file, l, TRUE, "ok").response) = aExit)
    /\ [][\A c \in Conns :
            (ReadOn(c) /\ parse(LineRead(c)).ok /\ parse(LineRead(c)).tag = "Exit")
            => /\ map' = map
               /\ file' = file
               /\ accepted' = accepted
               /\ phase' = phase
               /\ status'[c] = "writing"
               /\ pending'[c] = aExit
         ]_vars
    /\ [][\A c \in Conns :
            (status[c] = "writing" /\ pending[c] = aExit /\ status'[c] # status[c])
            => \/ status'[c] = "awaiting" /\ written'[c] = Append(written[c], aExit)
               \/ status'[c] = "closed" /\ written'[c] = written[c]
         ]_vars

\* A connection sent quit, got the failure, and had its next line answered.
C13_Witness ==
    \E c \in Conns :
      /\ reads[c] = <<lQuit, lPing1>>
      /\ written[c] = <<aExit, aPong1>>
      /\ status[c] = "awaiting"
      /\ file = file0


(***************************************************************************)
(* C14: the step that closes a session (its input ended, a read failed or  *)
(* a write failed) changes neither the store nor the log, leaves the       *)
(* process serving and leaves every other session as it was: one that      *)
(* awaits a line can still read one, one that writes can still finish.     *)
(***************************************************************************)
Closes(c) == status[c] # "closed" /\ status'[c] = "closed"

C14_CloseIsLocal ==
    /\ [][\A c \in Conns :
            Closes(c)
            => /\ map' = map
               /\ file' = file
               /\ accepted' = accepted
               /\ phase' = "serving"
               /\ \A d \in Conns \ {c} :
                    /\ status'[d] = status[d]
                    /\ pending'[d] = pending[d]
                    /\ reads'[d] = reads[d]
                    /\ produced'[d] = produced[d]
                    /\ written'[d] = written[d]
         ]_vars
    /\ [](\A c \in Conns : \A d \in Conns \ {c} :
            (phase = "serving" /\ status[c] = "closed")
            => /\ (status[d] = "awaiting" /\ nlines < MaxLines)
                    => ENABLED ReadLine(d)
               /\ status[d] = "writing" => ENABLED WriteDone(d))

\* One session ended on a failed write; the other one has had its line
\* answered.
C14_Witness ==
    \E c \in Conns : \E d \in Conns \ {c} :
      /\ status[c] = "closed"
      /\ reads[c] = <<lPing1>> /\ written[c] = <<>>
      /\ reads[d] = <<lPing2>> /\ written[d] = <<aPong2>>
      /\ phase = "serving"


(***************************************************************************)
(* C15: while the process serves, the log is its content at startup        *)
(* followed by exactly one record per accepted live mutation, in the order *)
(* of acceptance ("PUT <key> <value>" or "DEL <key>"), and nothing else.   *)
(***************************************************************************)
RecordOf(m) ==
    IF m.op = "Put" THEN sPUT \o <<SP>> \o m.key \o <<SP>> \o m.value
    ELSE sDEL \o <<SP>> \o m.key

\* The accepted requests that came from live traffic: those after the ones
\* replay applied.
LiveAccepted ==
    SubSeq(accepted, Len(RecordsOf(ReadLines(file0.bytes))) + 1, Len(accepted))

C15_LogIsAcceptedRecords ==
    (phase = "serving" \/ (phase = "crashed" /\ nlines > 0))
    => file.bytes = file0.bytes
                    \o Concat([i \in 1..Len(LiveAccepted) |-> RecordOf(LiveAccepted[i])])


(***************************************************************************)
(* C16: when the log file is absent at startup the process never serves:   *)
(* it goes from its start to the panic, accepts no connection, reads no    *)
(* line, and startup does not create the file.                             *)
(***************************************************************************)
C16_AbsentLogIsFatal ==
    ~file0.exists
    => /\ phase \in {"start", "crashed"}
       /\ \A c \in Conns : status[c] = "idle" /\ reads[c] = <<>>
       /\ nlines = 0
       /\ ~file.exists
       /\ map = EmptyMap

C16_Witness ==
    /\ ~file0.exists
    /\ phase = "crashed"
    /\ ~file.exists


(***************************************************************************)
(* C17: a live mutation's log append and store update happen in one step   *)
(* of one session, with no step of another session in between: the step    *)
(* that adds a record to the log adds exactly that one record at the end,  *)
(* is the reading of a PUT or DEL line on one connection, applies that     *)
(* same request to the store, and leaves every other session as it was.    *)
(* Hence the records live traffic appended appear in the log in the order  *)
(* in which their requests were applied to the store.                      *)
(***************************************************************************)
\* The store after the request mu is applied to the store m.
AfterMutation(m, mu) ==
    IF mu.op = "Put"
    THEN [x \in (DOMAIN m) \cup {mu.key} |-> IF x = mu.key THEN mu.value ELSE m[x]]
    ELSE [x \in (DOMAIN m) \ {mu.key} |-> m[x]]

\* The bytes are the records of some of the requests of acc, in acc's order.
RECURSIVE LoggedInOrder(_, _)
LoggedInOrder(bytes, acc) ==
    IF bytes = <<>> THEN TRUE
    ELSE IF acc = <<>> THEN FALSE
    ELSE LET r == RecordOf(Head(acc)) \o <<LF>> IN
         IF IsPrefix(r, bytes)
         THEN LoggedInOrder(SubSeq(bytes, Len(r) + 1, Len(bytes)), Tail(acc))
         ELSE LoggedInOrder(bytes, Tail(acc))

C17_AppendAndApplyAreOneStep ==
    /\ [][file'.bytes # file.bytes
          => \E c \in Conns :
               /\ ReadOn(c)
               /\ IsMutation(LineRead(c))
               /\ file'.bytes = file.bytes \o RecordText(LineRead(c)) \o <<LF>>
               /\ accepted' = Append(accepted, MutationOf(LineRead(c)))
               /\ map' = AfterMutation(map, MutationOf(LineRead(c)))
               /\ \A d \in Conns \ {c} :
                    /\ reads'[d] = reads[d]
                    /\ status'[d] = status[d]
                    /\ pending'[d] = pending[d]
                    /\ produced'[d] = produced[d]]_vars
    /\ [](phase = "serving"
          => /\ IsPrefix(file0.bytes, file.bytes)
             /\ LoggedInOrder(SubSeq(file.bytes, Len(file0.bytes) + 1,
                                     Len(file.bytes)),
                              LiveAccepted))

\* Two connections each had one mutation accepted and logged, in that order.
C17_Witness ==
    /\ phase = "serving"
    /\ file0 = FileOf(ExampleLog)
    /\ reads[1] = <<lDelA>>
    /\ reads[2] = <<lPutA1>>
    /\ file.bytes = file0.bytes \o lPutA1 \o <<LF>> \o lDelA \o <<LF>>
    /\ map = Only(kB, <<"2">>)
    /\ Len(LiveAccepted) = 2


(***************************************************************************)
(* C18: a live DEL k for a key that is absent from the store is answered   *)
(* Deleted(k), leaves the store unchanged and appends the record "DEL k"   *)
(* to the log.                                                             *)
(***************************************************************************)
\* This step reads a well-formed DEL on connection c for a key not stored.
DelOfAbsent(c) ==
    /\ ReadOn(c)
    /\ parse(LineRead(c)).ok
    /\ parse(LineRead(c)).tag = "Del"
    /\ parse(LineRead(c)).key \notin DOMAIN map

SuccessAnswer(mu) ==
    IF mu.op = "Put" THEN Answer(RPut(mu.key, mu.value)) ELSE Answer(RDel(mu.key))

\* Session c ended while the answer of its last line, an accepted PUT or
\* DEL, was being written.
Undelivered(c) ==
    /\ status[c] = "closed"
    /\ Len(written[c]) < Len(produced[c])
    /\ IsMutation(Last(reads[c]))
    /\ Last(produced[c]) = SuccessAnswer(MutationOf(Last(reads[c])))

Shows(m, mu) ==
    IF mu.op = "Put"
    THEN mu.key \in DOMAIN m /\ m[mu.key] = mu.value
    ELSE mu.key \notin DOMAIN m

C19_LostAnswerKeepsMutation ==
    /\ [][\A c \in Conns :
            (status[c] = "writing" /\ status'[c] = "closed")
            => /\ map' = map
               /\ file' = file
               /\ accepted' = accepted
               /\ written'[c] = written[c]
         ]_vars
    /\ [](\A c \in Conns :
            Undelivered(c)
            => LET mu == MutationOf(Last(reads[c])) IN
               \E i \in 1..Len(accepted) :
                  /\ accepted[i] = mu
                  /\ (\A j \in (i+1)..Len(accepted) : accepted[j].key # mu.key)
                     => Shows(map, mu))

\* PUT a 1 was accepted and logged, its answer was lost with the session,
\* and the other session's GET a finds the value.
C19_Witness ==
    \E c \in Conns : \E d \in Conns \ {c} :
      /\ file0 = FileOf(ExampleLog)
      /\ reads[c] = <<lPutA1>>
      /\ status[c] = "closed"
      /\ written[c] = <<>>
      /\ file.bytes = file0.bytes \o lPutA1 \o <<LF>>
      /\ reads[d] = <<lGetA>>
      /\ produced[d] = <<aGetA1>>


(***************************************************************************)
(* C20: every session terminates once its connection ends.  On connections *)
(* that end, and with pending writes completing or failing, every session  *)
(* that is awaiting a line or writing an answer eventually is closed (or   *)
(* the process has ended); a closed session stays closed, reads no further *)
(* line, gives no further answer and writes nothing more.                  *)
(***************************************************************************)
C20_SessionsTerminate ==
    /\ [][\A c \in Conns :
            status[c] = "closed"
            => /\ status'[c] = "closed"
               /\ reads'[c] = reads[c]
               /\ produced'[c] = produced[c]
               /\ written'[c] = written[c]
               /\ pending'[c] = pending[c]
         ]_vars
    /\ \A c \in Conns :
         (status[c] \in {"awaiting", "writing"})
         ~> (status[c] = "closed" \/ phase = "crashed")

\* One session ended by a failed write, the other by the end of its input
\* after its answer was written.
C20_Witness ==
    \E c \in Conns : \E d \in Conns \ {c} :
      /\ phase = "serving"
      /\ status[c] = "closed"
      /\ Len(written[c]) < Len(produced[c])
      /\ status[d] = "closed"
      /\ Len(reads[d]) = 1
      /\ written[d] = produced[d]

=============================================================================
